---------------------------- MODULE Spec2Model ----------------------------
(***************************************************************************)
(* Model of src/app.py: the AssignmentQuizGenerator pipeline               *)
(* (extract_key_concepts, generate_assignments, generate_quiz_questions)   *)
(* and the Streamlit script main() that drives it.                         *)
(*                                                                         *)
(* Strings are TLC strings; a character is a string of length 1.  The      *)
(* character classes are the ASCII part of Python's (letters a-z A-Z,      *)
(* digits, underscore, the usual whitespace).                              *)
(***************************************************************************)
EXTENDS Integers, Sequences, FiniteSets, TLC

VARIABLES
    input_method,     \* main: the radio widget's value
    text_area,        \* main: the text_area widget's value
    topic,            \* main: the text_input widget's value
    generate_button,  \* main: the button's value in the last run of the script
    input_text,       \* main: the local input_text of the last run / the text handed to a function
    hash_seed,        \* the process's string-hash seed, which fixes the iteration order of a set
    concepts,         \* the list extract_key_concepts returned / the list handed to a generator
    frequent_words,   \* extract_key_concepts: what line 49 added to its local concepts
    assignments,      \* the list generate_assignments returned
    exhausted,        \* whether generate_assignments left its loop through the break of line 76
    quiz_questions,   \* the list generate_quiz_questions returned
    invoked,          \* the pipeline functions the last run of main called, in order
    display,          \* what the last run of main showed: "instructions", "warning" or "results"
    pc,               \* position of a direct caller of one pipeline function
    first_concepts    \* what the previous call of extract_key_concepts on input_text returned

vars == <<input_method, text_area, topic, generate_button, input_text, hash_seed,
          concepts, frequent_words, assignments, exhausted, quiz_questions, invoked, display, pc,
          first_concepts>>

----------------------------------------------------------------------------
(* Bounds of the model. *)

\* How many vocabulary tokens a typed text is made of, at most.
MaxTokens == 3
\* How many different string-hash seeds a process can start with.
MaxHashSeed == 2
\* How many entries a concept list handed directly to a generator has, at most.
MaxConcepts == 3
\* How many of the random draws of one request take an outcome other than the
\* first one of their range (every single draw still takes every outcome).
MaxEntropy == 1

----------------------------------------------------------------------------
(* Characters and Python's str methods. *)

Lowercase == "abcdefghijklmnopqrstuvwxyz"
Uppercase == "ABCDEFGHIJKLMNOPQRSTUVWXYZ"
DigitChars == "0123456789"

CharAt(s, i) == SubSeq(s, i, i)
CharsOf(s) == {CharAt(s, i) : i \in 1..Len(s)}

LowerSet == CharsOf(Lowercase)
UpperSet == CharsOf(Uppercase)
\* \w of the re module
WordCharSet == LowerSet \cup UpperSet \cup CharsOf(DigitChars) \cup {"_"}
\* \s of the re module, and the characters str.split() and str.strip() drop
WhitespaceSet == {" ", "\n", "\t", "\r"}
\* the characters re.sub(r'[^\w\s]', ' ', text) keeps
KeptSet == WordCharSet \cup WhitespaceSet
CasedSet == LowerSet \cup UpperSet

ToLowerMap == [c \in UpperSet |-> CharAt(Lowercase, CHOOSE i \in 1..26 : CharAt(Uppercase, i) = c)]
ToUpperMap == [c \in LowerSet |-> CharAt(Uppercase, CHOOSE i \in 1..26 : CharAt(Lowercase, i) = c)]

LowerChar(c) == IF c \in UpperSet THEN ToLowerMap[c] ELSE c
UpperChar(c) == IF c \in LowerSet THEN ToUpperMap[c] ELSE c
IsCased(c) == c \in CasedSet

RECURSIVE LowerRange(_, _, _)
LowerRange(s, lo, hi) ==
    IF lo > hi THEN ""
    ELSE IF lo = hi THEN LowerChar(CharAt(s, lo))
    ELSE LET mid == (lo + hi) \div 2
         IN LowerRange(s, lo, mid) \o LowerRange(s, mid + 1, hi)

\* str.lower()
Lower(s) == LowerRange(s, 1, Len(s))

\* str.capitalize(): the first character upper-cased, the rest lower-cased
Capitalize(s) ==
    IF s = "" THEN "" ELSE UpperChar(CharAt(s, 1)) \o LowerRange(s, 2, Len(s))

RECURSIVE TitleRange(_, _, _)
TitleRange(s, lo, hi) ==
    IF lo > hi THEN ""
    ELSE IF lo = hi
         THEN IF lo > 1 /\ IsCased(CharAt(s, lo - 1))
              THEN LowerChar(CharAt(s, lo))
              ELSE UpperChar(CharAt(s, lo))
    ELSE LET mid == (lo + hi) \div 2
         IN TitleRange(s, lo, mid) \o TitleRange(s, mid + 1, hi)

\* str.title(): a cased character is upper-cased when the character before it is
\* not cased, and lower-cased otherwise
PyTitle(s) == TitleRange(s, 1, Len(s))

TitleUnchanged(s) == s

\* concept.title() as the generators call it
Title(s) == PyTitle(s)

\* str.isalpha()
IsAlpha(s) == s # "" /\ \A i \in 1..Len(s) : IsCased(CharAt(s, i))

IsSpaceAt(s, i) == CharAt(s, i) \in WhitespaceSet

\* the first index from i on, and the last index down from i, that holds no whitespace
RECURSIVE LeftEdge(_, _)
LeftEdge(s, i) == IF i > Len(s) \/ ~IsSpaceAt(s, i) THEN i ELSE LeftEdge(s, i + 1)

RECURSIVE RightEdge(_, _)
RightEdge(s, i) == IF i < 1 \/ ~IsSpaceAt(s, i) THEN i ELSE RightEdge(s, i - 1)

\* str.strip()
Strip(s) ==
    LET lo == LeftEdge(s, 1)
    IN IF lo > Len(s) THEN "" ELSE SubSeq(s, lo, RightEdge(s, Len(s)))

\* the first index at which pat occurs in s from index from on, 0 when there is none
FindFrom(s, pat, from) ==
    LET m == Len(pat)
        hits == {i \in from..(Len(s) - m + 1) : SubSeq(s, i, i + m - 1) = pat}
    IN IF hits = {} THEN 0 ELSE CHOOSE i \in hits : \A j \in hits : i <= j

\* pat in s
Contains(s, pat) == FindFrom(s, pat, 1) # 0

RECURSIVE CountFrom(_, _, _)
CountFrom(s, pat, from) ==
    LET i == FindFrom(s, pat, from)
    IN IF i = 0 THEN 0 ELSE 1 + CountFrom(s, pat, i + Len(pat))

\* s.count(pat): the non-overlapping occurrences of pat in s
CountOccurrences(s, pat) == CountFrom(s, pat, 1)

\* seq as a list whose entries are computed once
AsList(seq) == seq \o <<>>

\* how many entries of seq equal x
CountIn(seq, x) == Cardinality({i \in 1..Len(seq) : seq[i] = x})

Min(a, b) == IF a < b THEN a ELSE b

\* seq[:n]
Take(seq, n) == SubSeq(seq, 1, Min(n, Len(seq)))

RECURSIVE Factorial(_)
Factorial(n) == IF n <= 1 THEN 1 ELSE n * Factorial(n - 1)

\* seq without its entry at index i
RemoveAt(seq, i) == SubSeq(seq, 1, i - 1) \o SubSeq(seq, i + 1, Len(seq))

\* The k-th permutation of seq (k read modulo Len(seq)!, in the factorial number
\* system): k = 0 is seq itself, and k in 0..Len(seq)!-1 gives every permutation.
RECURSIVE Permute(_, _)
Permute(seq, k) ==
    IF Len(seq) <= 1 THEN seq
    ELSE LET f == Factorial(Len(seq) - 1)
             i == ((k \div f) % Len(seq)) + 1
         IN <<seq[i]>> \o Permute(RemoveAt(seq, i), k % f)

RECURSIVE FirstsInRange(_, _, _)
FirstsInRange(seq, lo, hi) ==
    IF lo > hi THEN <<>>
    ELSE IF lo = hi
         THEN IF \E j \in 1..(lo - 1) : seq[j] = seq[lo] THEN <<>> ELSE <<seq[lo]>>
    ELSE LET mid == (lo + hi) \div 2
         IN FirstsInRange(seq, lo, mid) \o FirstsInRange(seq, mid + 1, hi)

\* seq with only the first occurrence of each entry kept
Dedup(seq) == FirstsInRange(seq, 1, Len(seq))

----------------------------------------------------------------------------
(* extract_key_concepts *)

RECURSIVE CleanRange(_, _, _)
CleanRange(s, lo, hi) ==
    IF lo > hi THEN ""
    ELSE IF lo = hi
         THEN IF CharAt(s, lo) \in KeptSet THEN CharAt(s, lo) ELSE " "
    ELSE LET mid == (lo + hi) \div 2
         IN CleanRange(s, lo, mid) \o CleanRange(s, mid + 1, hi)

\* re.sub(r'[^\w\s]', ' ', text)
CleanText(text) == CleanRange(text, 1, Len(text))

\* the word of s that starts at index i
WordAt(s, i) ==
    SubSeq(s, i, CHOOSE j \in i..Len(s) :
                    /\ \A k \in i..j : ~IsSpaceAt(s, k)
                    /\ (j = Len(s) \/ IsSpaceAt(s, j + 1)))

RECURSIVE SplitRange(_, _, _)
SplitRange(s, lo, hi) ==
    IF lo > hi THEN <<>>
    ELSE IF lo = hi
         THEN IF ~IsSpaceAt(s, lo) /\ (lo = 1 \/ IsSpaceAt(s, lo - 1))
              THEN <<WordAt(s, lo)>>
              ELSE <<>>
    ELSE LET mid == (lo + hi) \div 2
         IN SplitRange(s, lo, mid) \o SplitRange(s, mid + 1, hi)

\* str.split(): the maximal runs of non-whitespace characters, in order
Split(s) == SplitRange(s, 1, Len(s))

\* lines 36-38: the lower-cased capitalized words longer than 3
CapitalizedWords(words) ==
    LET picked == SelectSeq(words, LAMBDA w : Capitalize(w) = w /\ Len(w) > 3)
    IN AsList([i \in 1..Len(picked) |-> Lower(picked[i])])

CleanWordCaseKept(word) == Strip(word)

\* line 43
CleanWord(word) == Strip(Lower(word))

\* lines 42-43: clean_word of every word
CleanWords(words) == AsList([i \in 1..Len(words) |-> CleanWord(words[i])])

\* lines 41-45: the keys of word_freq, in the order the dict holds them
FreqKeys(words) ==
    Dedup(SelectSeq(CleanWords(words), LAMBDA w : Len(w) > 4 /\ IsAlpha(w)))

\* lines 48-49: the keys sorted by falling count (sorted() is stable), the first
\* 10 of them, and of those the ones that occur more than once
FrequentWords(words) ==
    LET cleaned == CleanWords(words)
        keys == FreqKeys(words)
        n == Len(keys)
        \* word_freq[keys[i]]
        cnt == AsList([i \in 1..n |-> CountIn(cleaned, keys[i])])
        rank == AsList([i \in 1..n |->
                    Cardinality({j \in 1..n : cnt[j] > cnt[i] \/ (cnt[j] = cnt[i] /\ j < i)}) + 1])
        sorted == AsList([r \in 1..n |-> CHOOSE i \in 1..n : rank[i] = r])
        top == Take(sorted, 10)
        kept == SelectSeq(top, LAMBDA i : cnt[i] > 1)
    IN AsList([r \in 1..Len(kept) |-> keys[kept[r]]])

\* list(set(concepts)): the distinct entries, in the order the set iterates them,
\* which the string hashes of the process fix and the code does not
ListOfSet(seq, seed) == Permute(Dedup(seq), seed)

ConceptLimitDropped(seq) == seq

\* line 52: [:8]
ConceptLimit(seq) == Take(seq, 8)

\* lines 27 and 33: the local words
WordsOf(text) == AsList(Split(CleanText(text)))

\* lines 24-52
extract_key_concepts(text, seed) ==
    LET words == WordsOf(text)
    IN ConceptLimit(ListOfSet(CapitalizedWords(words) \o FrequentWords(words), seed))

----------------------------------------------------------------------------
(* The random source.  A request draws from it in a fixed number of places;   *)
(* a tape gives the outcome of each draw.                                      *)

\* The tapes over the given ranges (entry i is in 0..ranges[i]) in which at most
\* d entries are not 0.
RECURSIVE Tapes(_, _)
Tapes(ranges, d) ==
    IF ranges = <<>> THEN {<<>>}
    ELSE {<<0>> \o t : t \in Tapes(Tail(ranges), d)}
         \cup (IF d = 0 THEN {}
               ELSE {<<v>> \o t : v \in 1..Head(ranges), t \in Tapes(Tail(ranges), d - 1)})

\* random.choice(seq), its outcome given by draw
RandomChoice(seq, draw) == seq[(draw % Len(seq)) + 1]

\* random.shuffle(seq), its outcome given by draw: every permutation of seq
RandomShuffle(seq, draw) == Permute(seq, draw)

----------------------------------------------------------------------------
(* generate_assignments *)

\* lines 8-14
assignment_templates == <<
    "Write a comprehensive essay analyzing {topic}. Discuss its key components, significance, and implications.",
    "Compare and contrast different aspects of {topic}. Provide specific examples and explain their relevance.",
    "Evaluate the importance of {topic} in its broader context. Support your arguments with evidence and reasoning.",
    "Examine the relationship between {topic} and related concepts. How do they influence each other?",
    "Create a detailed analysis of {topic}, including its causes, effects, and potential solutions or applications." >>

\* line 72
generic_topic == "the main topic discussed"

Placeholder == "{topic}"

\* template.format(topic=value): every replacement field {topic} of the template
\* replaced by value (the templates hold no other brace)
RECURSIVE FormatTopic(_, _)
FormatTopic(template, value) ==
    LET i == FindFrom(template, Placeholder, 1)
    IN IF i = 0 THEN template
       ELSE SubSeq(template, 1, i - 1) \o value
            \o FormatTopic(SubSeq(template, i + Len(Placeholder), Len(template)), value)

\* lines 58-65
ConceptAssignments(concept_list) ==
    LET selected_concepts == Take(concept_list, 2)
    IN AsList([i \in 1..Len(selected_concepts) |->
                 FormatTopic(assignment_templates[((i - 1) % Len(assignment_templates)) + 1],
                             Title(selected_concepts[i]))])

RemainingTemplatesNotDropped(done) ==
    SelectSeq(assignment_templates,
              LAMBDA t : \E i \in 1..Len(done) : Contains(done[i], t))

\* line 69: the templates that are a substring of no assignment made so far
RemainingTemplates(done) ==
    SelectSeq(assignment_templates,
              LAMBDA t : ~(\E i \in 1..Len(done) : Contains(done[i], t)))

\* lines 68-76: the while loop, one random.choice per turn
RECURSIVE Backfill(_, _)
Backfill(done, draws) ==
    IF Len(done) < 2
    THEN LET remaining_templates == RemainingTemplates(done)
         IN IF remaining_templates # <<>>
            THEN Backfill(
                   Append(done, FormatTopic(RandomChoice(remaining_templates, Head(draws)),
                                            generic_topic)),
                   Tail(draws))
            ELSE [assignments |-> done, exhausted |-> TRUE]
    ELSE [assignments |-> done, exhausted |-> FALSE]

\* lines 54-78; the result is the returned list and whether the loop was left by break
generate_assignments(text, concept_list, draws) ==
    LET out == Backfill(IF concept_list # <<>> THEN ConceptAssignments(concept_list) ELSE <<>>,
                        draws)
    IN [assignments |-> Take(out.assignments, 2), exhausted |-> out.exhausted]

----------------------------------------------------------------------------
(* generate_quiz_questions *)

\* lines 16-22
question_starters == <<
    "What is the main concept behind",
    "Which of the following best describes",
    "What are the key characteristics of",
    "Which statement is most accurate about",
    "What is the primary purpose of" >>

\* lines 90 and 117; i counts from 0
QuestionText(i, concept_list, stem_draw) ==
    IF i < Len(concept_list)
    THEN RandomChoice(question_starters, stem_draw) \o " " \o concept_list[i + 1] \o "?"
    ELSE "Based on the text, which statement is most accurate?"

\* lines 93 and 118
CorrectAnswer(i, concept_list) ==
    IF i < Len(concept_list)
    THEN Title(concept_list[i + 1]) \o " is a key concept discussed in the text"
    ELSE "The text provides valuable information on the topic"

WrongAnswersCopied(i, concept_list) ==
    <<CorrectAnswer(i, concept_list), "The text lacks any coherent structure",
      "The text is purely fictional">>

\* lines 95-113 and 119-123
WrongAnswers(i, concept_list) ==
    IF i < Len(concept_list)
    THEN LET c == Title(concept_list[i + 1])
         IN IF i = 1
            THEN <<c \o " has no practical applications",
                   c \o " is an outdated concept",
                   c \o " is purely theoretical">>
            ELSE IF i = 2
            THEN <<c \o " is the least important aspect",
                   c \o " is a minor detail",
                   c \o " is incorrectly defined">>
            ELSE <<c \o " is not mentioned in the context",
                   c \o " is only briefly referenced",
                   c \o " is contradicted by the main argument">>
    ELSE <<"The text contradicts itself frequently",
           "The text lacks any coherent structure",
           "The text is purely fictional">>

IndexBeforeShuffle(seq, x) == 0

\* list.index(x): the 0-based index of the first entry equal to x
ListIndex(seq, x) ==
    (CHOOSE i \in 1..Len(seq) : seq[i] = x /\ \A j \in 1..(i - 1) : seq[j] # x) - 1

\* chr(code), for the codes of the capital letters
Chr(code) == CharAt(Uppercase, code - 64)

\* lines 87-134: the question of loop index i
Question(i, concept_list, stem_draw, shuffle_draw) ==
    LET correct_answer == CorrectAnswer(i, concept_list)
        all_answers == RandomShuffle(<<correct_answer>> \o WrongAnswers(i, concept_list),
                                     shuffle_draw)
        correct_index == ListIndex(all_answers, correct_answer)
    IN [question |-> QuestionText(i, concept_list, stem_draw),
        options |-> all_answers,
        correct_answer |-> Chr(65 + correct_index)]

\* lines 80-136; stem_draws and shuffle_draws hold the outcome of the random.choice
\* and of the random.shuffle of each of the three turns of the loop
generate_quiz_questions(text, concept_list, stem_draws, shuffle_draws) ==
    AsList([k \in 1..3 |-> Question(k - 1, concept_list, stem_draws[k], shuffle_draws[k])])

----------------------------------------------------------------------------
(* main *)

\* lines 174-182: the f-string of the topic flow
TopicText(t) ==
    "\n                " \o t \o " is an important subject that involves multiple key concepts and principles. "
    \o "\n                Understanding " \o t \o " requires knowledge of its fundamental components, processes, and applications."
    \o "\n                The study of " \o t \o " encompasses various aspects including its historical development, "
    \o "\n                current applications, and future implications. Key elements of " \o t \o " include its "
    \o "\n                theoretical foundations, practical implementations, and relationship to other related fields."
    \o "\n                Researchers and practitioners in " \o t \o " continue to explore new methodologies and "
    \o "\n                approaches to advance our understanding of this important area."
    \o "\n                "

\* lines 160-184: the local input_text
InputText(method, area, t) ==
    IF method = "Text Input" THEN area
    ELSE IF t # "" THEN TopicText(t) ELSE ""


PipelineFunctions == <<"extract_key_concepts", "generate_assignments", "generate_quiz_questions">>

\* the draws of one request: two random.choice of generate_assignments' loop, then
\* the random.choice and the random.shuffle of each of the three questions
RequestDraws ==
    LET c == Len(assignment_templates) - 1
        q == Len(question_starters) - 1
        p == Factorial(4) - 1
    IN <<c, c, q, q, q, p, p, p>>

GuardWithoutStrip(button, text) == button /\ text # ""

\* line 189
PipelineGuard(button, text) == button /\ Strip(text) # ""

\* lines 138-270: one run of the script.  Streamlit runs it anew on every
\* interaction, with the widgets' values as they then are; the button is True only
\* in the run its click causes.
main(method, area, t, button) ==
    LET text == InputText(method, area, t)
    IN /\ input_method' = method
       /\ text_area' = area
       /\ topic' = t
       /\ generate_button' = button
       /\ input_text' = text
       /\ IF PipelineGuard(button, text)
          THEN /\ concepts' = extract_key_concepts(text, hash_seed)
               /\ frequent_words' = FrequentWords(WordsOf(text))
               /\ \E tape \in Tapes(RequestDraws, MaxEntropy) :
                     /\ assignments' = generate_assignments(text, concepts', SubSeq(tape, 1, 2)).assignments
                     /\ exhausted' = generate_assignments(text, concepts', SubSeq(tape, 1, 2)).exhausted
                     /\ quiz_questions' = generate_quiz_questions(text, concepts', SubSeq(tape, 3, 5),
                                                                 SubSeq(tape, 6, 8))
               /\ invoked' = PipelineFunctions
               /\ display' = "results"
          ELSE /\ concepts' = <<>>
               /\ frequent_words' = <<>>
               /\ assignments' = <<>>
               /\ exhausted' = FALSE
               /\ quiz_questions' = <<>>
               /\ invoked' = <<>>
               /\ display' = IF button THEN "warning" ELSE "instructions"
       /\ UNCHANGED <<hash_seed, pc, first_concepts>>

----------------------------------------------------------------------------
(* Inputs *)

\* the end-to-end example
SampleText ==
    "Photosynthesis is a process. Photosynthesis occurs in plants. Plants use Photosynthesis to create energy."

\* a text with nine different capitalized words
PlanetsText == "Mercury Venus Earth Mars Jupiter Saturn Uranus Neptune Pluto"

Vocabulary == {"Plants", "energy", "Cell", "DNA", "2024", " ", ".", "\n"}

\* the texts typed from at most n tokens of the vocabulary
RECURSIVE TypedTexts(_)
TypedTexts(n) ==
    IF n = 0 THEN {""}
    ELSE LET shorter == TypedTexts(n - 1)
         IN shorter \cup {t \o v : t \in shorter, v \in Vocabulary}

ExtractTexts == TypedTexts(MaxTokens) \cup {SampleText, PlanetsText, TopicText("Gravity")}

HashSeeds == 0..(MaxHashSeed - 1)

\* the lists of at most n entries of pool
RECURSIVE ListsOver(_, _)
ListsOver(pool, n) ==
    IF n = 0 THEN {<<>>}
    ELSE LET shorter == ListsOver(pool, n - 1)
         IN shorter \cup {Append(l, c) : l \in shorter, c \in pool}

AssignmentConcepts == {"plants", "new york", "{topic}", "the main topic discussed"}
QuizConcepts == {"plants", "new york"}

ShellTexts == {"", " \n", "Cell", SampleText}
ShellTopics == {"", " ", "Gravity"}

----------------------------------------------------------------------------
(* Spec: the script main under the user's interactions *)

Init ==
    /\ input_method = "Text Input"
    /\ text_area = ""
    /\ topic = ""
    /\ generate_button = FALSE
    /\ input_text = ""
    /\ hash_seed \in HashSeeds
    /\ concepts = <<>>
    /\ frequent_words = <<>>
    /\ assignments = <<>>
    /\ exhausted = FALSE
    /\ quiz_questions = <<>>
    /\ invoked = <<>>
    /\ display = "instructions"
    /\ pc = "main"
    /\ first_concepts = <<>>

\* the radio changes; the widget of the other method is no longer drawn
ChooseInputMethod(m) ==
    /\ m # input_method
    /\ main(m, "", "", FALSE)

\* the user edits the text area
EditText(t) ==
    /\ input_method = "Text Input"
    /\ t # text_area
    /\ main(input_method, t, topic, FALSE)

\* the user edits the topic
EditTopic(t) ==
    /\ input_method = "Topic Input"
    /\ t # topic
    /\ main(input_method, text_area, t, FALSE)

\* the user clicks "Generate Content".  A run of the script depends on nothing the
\* run before it left, so a second click in a row reaches what the first one can.
ClickGenerate ==
    /\ ~generate_button
    /\ main(input_method, text_area, topic, TRUE)

Next ==
    \/ \E m \in {"Text Input", "Topic Input"} : ChooseInputMethod(m)
    \/ \E t \in ShellTexts : EditText(t)
    \/ \E t \in ShellTopics : EditTopic(t)
    \/ ClickGenerate

Spec == Init /\ [][Next]_vars

----------------------------------------------------------------------------
(* SpecExtract: extract_key_concepts called directly, twice on the same text *)

ShellIdle ==
    /\ frequent_words = <<>>
    /\ input_method = "Text Input"
    /\ text_area = ""
    /\ topic = ""
    /\ generate_button = FALSE
    /\ invoked = <<>>
    /\ display = "instructions"

ShellUnchanged == UNCHANGED <<frequent_words, input_method, text_area, topic, generate_button, invoked, display>>

InitExtract ==
    /\ ShellIdle
    /\ input_text \in ExtractTexts
    /\ hash_seed \in HashSeeds
    /\ concepts = <<>>
    /\ first_concepts = <<>>
    /\ assignments = <<>>
    /\ exhausted = FALSE
    /\ quiz_questions = <<>>
    /\ pc = "ready"

ExtractCall ==
    /\ pc = "ready"
    /\ concepts' = extract_key_concepts(input_text, hash_seed)
    /\ pc' = "called"
    /\ UNCHANGED <<input_text, hash_seed, first_concepts, assignments, exhausted, quiz_questions>>
    /\ ShellUnchanged

\* the process is started anew, with another string-hash seed
Restart ==
    /\ pc = "called"
    /\ \E s \in HashSeeds : s # hash_seed /\ hash_seed' = s
    /\ UNCHANGED <<input_text, concepts, first_concepts, assignments, exhausted, quiz_questions, pc>>
    /\ ShellUnchanged

ExtractAgain ==
    /\ pc = "called"
    /\ first_concepts' = concepts
    /\ concepts' = extract_key_concepts(input_text, hash_seed)
    /\ pc' = "again"
    /\ UNCHANGED <<input_text, hash_seed, assignments, exhausted, quiz_questions>>
    /\ ShellUnchanged

NextExtract == ExtractCall \/ Restart \/ ExtractAgain

SpecExtract == InitExtract /\ [][NextExtract]_vars

----------------------------------------------------------------------------
(* SpecAssign: generate_assignments called directly *)

InitAssign ==
    /\ ShellIdle
    /\ input_text = ""
    /\ hash_seed = 0
    /\ concepts \in ListsOver(AssignmentConcepts, MaxConcepts)
    /\ first_concepts = <<>>
    /\ assignments = <<>>
    /\ exhausted = FALSE
    /\ quiz_questions = <<>>
    /\ pc = "ready"

CallAssignments ==
    /\ pc = "ready"
    /\ \E draws \in Tapes(SubSeq(RequestDraws, 1, 2), MaxEntropy) :
          /\ assignments' = generate_assignments(input_text, concepts, draws).assignments
          /\ exhausted' = generate_assignments(input_text, concepts, draws).exhausted
    /\ pc' = "returned"
    /\ UNCHANGED <<input_text, hash_seed, concepts, first_concepts, quiz_questions>>
    /\ ShellUnchanged

NextAssign == CallAssignments

SpecAssign == InitAssign /\ [][NextAssign]_vars

----------------------------------------------------------------------------
(* SpecQuiz: generate_quiz_questions called directly *)

InitQuiz ==
    /\ ShellIdle
    /\ input_text \in {"", SampleText}
    /\ hash_seed = 0
    /\ concepts \in ListsOver(QuizConcepts, MaxConcepts)
    /\ first_concepts = <<>>
    /\ assignments = <<>>
    /\ exhausted = FALSE
    /\ quiz_questions = <<>>
    /\ pc = "ready"

CallQuiz ==
    /\ pc = "ready"
    /\ \E tape \in Tapes(SubSeq(RequestDraws, 3, 8), MaxEntropy) :
          quiz_questions' = generate_quiz_questions(input_text, concepts, SubSeq(tape, 1, 3),
                                                    SubSeq(tape, 4, 6))
    /\ pc' = "returned"
    /\ UNCHANGED <<input_text, hash_seed, concepts, first_concepts, assignments, exhausted>>
    /\ ShellUnchanged

NextQuiz == CallQuiz

SpecQuiz == InitQuiz /\ [][NextQuiz]_vars

----------------------------------------------------------------------------
(* The claims *)

\* the entries of a list, as a set
Entries(seq) == {seq[i] : i \in 1..Len(seq)}

HasWhitespace(s) == \E i \in 1..Len(s) : IsSpaceAt(s, i)

\* ord(label) - 65, for a capital letter
LabelIndex(label) == (CHOOSE i \in 1..Len(Uppercase) : CharAt(Uppercase, i) = label) - 1

\* C1: generate_quiz_questions returns exactly 3 questions, each with exactly 4
\* options among which the correct-answer string built for it occurs exactly once.
C1_ThreeQuestionsFourOptions ==
    pc = "returned" =>
        /\ Len(quiz_questions) = 3
        /\ \A k \in 1..Len(quiz_questions) :
              /\ Len(quiz_questions[k].options) = 4
              /\ CountIn(quiz_questions[k].options, CorrectAnswer(k - 1, concepts)) = 1

\* C1's case: one question about a concept and two generic ones, the first shuffled
C1_Witness ==
    /\ pc = "returned"
    /\ Len(concepts) = 1
    /\ Len(quiz_questions) = 3
    /\ quiz_questions[1].options[1] # CorrectAnswer(0, concepts)
    /\ quiz_questions[3].question = "Based on the text, which statement is most accurate?"

\* C2: the recorded correct_answer of every question is one of A, B, C, D, and the
\* option at the index it denotes is the correct-answer string built for the
\* question, not one of its three wrong answers.
C2_LabelDenotesCorrectAnswer ==
    pc = "returned" =>
        \A k \in 1..Len(quiz_questions) :
            LET q == quiz_questions[k]
            IN /\ q.correct_answer \in {"A", "B", "C", "D"}
               /\ q.options[LabelIndex(q.correct_answer) + 1] = CorrectAnswer(k - 1, concepts)
               /\ q.options[LabelIndex(q.correct_answer) + 1] \notin Entries(WrongAnswers(k - 1, concepts))

\* C2's case: a shuffle moved the correct answer to the last place
C2_Witness ==
    /\ pc = "returned"
    /\ Len(quiz_questions) = 3
    /\ \E k \in 1..3 : /\ quiz_questions[k].correct_answer = "D"
                       /\ quiz_questions[k].options[4] = CorrectAnswer(k - 1, concepts)

\* C3: generate_assignments returns at most 2 strings; none holds the placeholder
\* {topic}; each is a template with its placeholder replaced by a title-cased
\* concept or by the fallback topic.
C3_NoUnresolvedPlaceholder ==
    pc = "returned" =>
        /\ Len(assignments) <= 2
        /\ \A i \in 1..Len(assignments) :
              /\ ~Contains(assignments[i], "{topic}")
              /\ \E k \in 1..Len(assignment_templates) :
                    \/ assignments[i] = FormatTopic(assignment_templates[k], "the main topic discussed")
                    \/ \E c \in Entries(concepts) :
                          assignments[i] = FormatTopic(assignment_templates[k], PyTitle(c))

\* C3's case: the concept is the placeholder's own text, and one assignment is backfilled
C3_Witness ==
    /\ pc = "returned"
    /\ concepts = <<"{topic}">>
    /\ Len(assignments) = 2
    /\ Contains(assignments[1], "{Topic}")

\* C4: extract_key_concepts returns no concept for a text that is empty or only
\* whitespace; it returns at most 8 entries, none twice, none empty and none with
\* a whitespace character.
C4_ExtractShape ==
    pc \in {"called", "again"} =>
        /\ Strip(input_text) = "" => concepts = <<>>
        /\ Len(concepts) <= 8
        /\ \A i, j \in 1..Len(concepts) : concepts[i] = concepts[j] => i = j
        /\ \A i \in 1..Len(concepts) : concepts[i] # "" /\ ~HasWhitespace(concepts[i])

\* C4's case: a text with more than 8 candidates, cut to 8
C4_Witness ==
    /\ pc = "called"
    /\ input_text = PlanetsText
    /\ Len(concepts) = 8

\* C5: two calls of extract_key_concepts on the same text return the same set of
\* concepts.
C5_SameConceptsTwice ==
    pc = "again" => Entries(first_concepts) = Entries(concepts)

\* C6: on the example text the concepts include "photosynthesis", and of the 3
\* questions the first is about photosynthesis (its text names the concept, in
\* whatever case).
C6_FirstQuestionPhotosynthesis ==
    (input_text = SampleText /\ display = "results") =>
        /\ "photosynthesis" \in Entries(concepts)
        /\ Len(quiz_questions) = 3
        /\ Contains(Lower(quiz_questions[1].question), "photosynthesis")

\* C7 as the spec states it: the text made for the topic Gravity holds "Gravity"
\* six times, and extraction on it yields "gravity", through the frequency pass.
C7_GravitySixTimes ==
    (input_method = "Topic Input" /\ topic = "Gravity") =>
        /\ CountOccurrences(input_text, "Gravity") = 6
        /\ display = "results" => ("gravity" \in Entries(concepts)
                                   /\ "gravity" \in Entries(frequent_words))

\* C7, amended: the text made for the topic Gravity holds "Gravity" five times,
\* and extraction on it yields "gravity", through the frequency pass.
C7_GravityFiveTimes ==
    (input_method = "Topic Input" /\ topic = "Gravity") =>
        /\ CountOccurrences(input_text, "Gravity") = 5
        /\ display = "results" => ("gravity" \in Entries(concepts)
                                   /\ "gravity" \in Entries(frequent_words))

\* C7's case: the pipeline ran on the text made for the topic Gravity
C7_Witness ==
    /\ input_method = "Topic Input"
    /\ topic = "Gravity"
    /\ display = "results"
    /\ Len(concepts) > 0

\* C8: a click with blank input (a missing topic included) calls no pipeline
\* function and shows the warning; the pipeline functions are called only by a
\* click with non-blank input, and then all three; without a click neither the
\* pipeline nor the warning occurs.
C8_ShellGuard ==
    /\ (generate_button /\ Strip(input_text) = "") => (invoked = <<>> /\ display = "warning")
    /\ (generate_button /\ input_method = "Topic Input" /\ topic = "")
          => (invoked = <<>> /\ display = "warning")
    /\ invoked # <<>> =>
          /\ generate_button
          /\ Strip(input_text) # ""
          /\ invoked = <<"extract_key_concepts", "generate_assignments", "generate_quiz_questions">>
    /\ display = "results" <=> invoked # <<>>
    /\ ~generate_button => (invoked = <<>> /\ display = "instructions")

\* C8's case: a click on a text of whitespace only
C8_Witness ==
    /\ generate_button
    /\ input_method = "Text Input"
    /\ input_text # ""
    /\ Strip(input_text) = ""
    /\ display = "warning"

\* assignment a is template number k with its placeholder replaced
BuiltFrom(a, k) ==
    \E x \in {generic_topic} \cup {PyTitle(c) : c \in Entries(concepts)} :
        a = FormatTopic(assignment_templates[k], x)

\* C9: the two assignments of a request are never built from the same template and
\* are never the same string.
C9_DistinctTemplates ==
    (pc = "returned" /\ Len(assignments) = 2) =>
        /\ assignments[1] # assignments[2]
        /\ ~(\E k \in 1..Len(assignment_templates) :
                BuiltFrom(assignments[1], k) /\ BuiltFrom(assignments[2], k))

\* C10: generate_assignments returns exactly 2 assignments, and never leaves its
\* loop because no template remains.
C10_AlwaysTwoAssignments ==
    pc = "returned" => (Len(assignments) = 2 /\ ~exhausted)

\* C10's case: no concept, both assignments backfilled
C10_Witness ==
    /\ pc = "returned"
    /\ concepts = <<>>
    /\ Len(assignments) = 2
    /\ Contains(assignments[2], generic_topic)

============================================================================
